---- MODULE Spec2Model ----
(***************************************************************************)
(* One satellite of the CV-S-emulation ring: the message router            *)
(* (CommunicationThread), the response collector (ResponseHandler), the    *)
(* accepted-request registry, the executor queue and the orbital oracle    *)
(* (OrbitalPositionThread).                                                *)
(*                                                                         *)
(* Python objects are modelled by value.  A message is a record with the   *)
(* fields type, taskID, unixTimestampLimit, source, firstHopID and         *)
(* lastSenderID; a field a message class does not have holds 0 / None.     *)
(* A firstHopID is a tagged value [kind, val] because the code stores      *)
(* satellite ids, IP addresses, None and (responseHandler.py:67) a bound   *)
(* method in that field.                                                   *)
(***************************************************************************)
EXTENDS Integers, Sequences, FiniteSets, TLC

VARIABLES
    nodes,               \* list(currentAngle.keys()): satellite ids in insertion order
    satelliteID,         \* own satellite id
    currentAngle,        \* OrbitalPositionThread.currentAngle, in angle steps
    satClosestToGround,  \* OrbitalPositionThread.satClosestToGround
    responses,           \* ResponseHandler.responses
    transmissionQueue,   \* CommunicationThread.transmissionQueue
    log,                 \* taskIDs of the "Task Request Time Out" log lines
    taskCount,           \* number of tasks this node has originated
    messageList,         \* CommunicationThread.messageList, the inbox
    routerIdx,           \* position of the list iterator of CommunicationThread.run
    routerPc,            \* where the router is inside messageTypeHandle
    acceptedRequestsQueue, \* AcceptedRequestQueue: taskID -> [frequency, expiry]
    allocatedTasks,      \* the executor's queue of (task, frequency)
    now,                 \* the clock, in seconds
    delivered,           \* messages the neighbours have handed over so far
    cancelled,           \* history: taskIDs whose entry a RESPONSE-NACK removed, until re-admitted
    lastHandled,         \* history: type and taskID of the message handled last
    sent,                \* what the transmitter has put on the links: (to, message, from)
    workers,             \* state of each worker thread: "running", "crashed" or "exited"
    stopFlag,            \* the stop events have been set
    tickIdx,             \* decrementTime: position of the list iterator over responses
    tickPc,              \* decrementTime: "idle", or "remove" before line 80
    orbitIdx,            \* __updatePositions: number of angles already moved in this tick
    snapshot,            \* what a reader of the orbital state saw last: (angles, closest)
    flight               \* copies of one originated message on their way round the ring

configVars == <<nodes, satelliteID>>
orbitVars == <<currentAngle, satClosestToGround>>
collectorVars == <<responses, log, taskCount>>
routerVars == <<messageList, routerIdx, routerPc>>
registryVars == <<acceptedRequestsQueue, allocatedTasks>>
historyVars == <<cancelled, lastHandled>>
threadVars == <<workers, stopFlag, tickIdx, tickPc, orbitIdx, snapshot>>
vars == <<nodes, satelliteID, currentAngle, satClosestToGround, responses,
          transmissionQueue, log, taskCount, messageList, routerIdx, routerPc,
          acceptedRequestsQueue, allocatedTasks, now, delivered, cancelled,
          lastHandled, sent, workers, stopFlag, tickIdx, tickPc, orbitIdx, snapshot,
          flight>>

(***************************************************************************)
(* Bounds of the model.                                                    *)
(***************************************************************************)
MaxRing == 4        \* largest ring size drawn at Init
AngleSteps == 12    \* angle steps per revolution (2*pi)
MaxOrbits == 2      \* largest orbitNumber a mission names
\* the orbital tick stops when the own angle has reached the last orbit named
MaxAngle == MaxOrbits * AngleSteps
MaxTasks == 2       \* tasks the node originates
MaxWindow == 1      \* largest deadline - now at addTask, in collector ticks
MaxResponds == 3    \* RESPOND messages delivered to the collector in one run
MaxDelivered == 3   \* messages the listeners deposit in one run of the router
MaxTime == 2        \* last value of the clock
RequestDeadline == 1 \* unixTimestampLimit of the tasks other satellites request
MaxCrops == 2       \* bounding boxes one inference finds
LateDeadline == 2   \* unixTimestampLimit of a second REQUEST for the same task

(***************************************************************************)
(* Program constants.                                                      *)
(***************************************************************************)
GROUND == 0         \* the sentinel "GROUND" of the priority list
SatBase == 16       \* stands for 2^48: taskID = counter * SatBase + satellite

(***************************************************************************)
(* Helpers for Python's list and integer semantics.                        *)
(***************************************************************************)
Abs(x) == IF x < 0 THEN -x ELSE x

PyMod(a, n) == ((a % n) + n) % n

RemoveAt(s, i) == SubSeq(s, 1, i - 1) \o SubSeq(s, i + 1, Len(s))

\* list.index(x) + 1: the first position holding x, 0 when absent
IndexOf(s, x) ==
    IF \E i \in 1..Len(s) : s[i] = x
    THEN CHOOSE i \in 1..Len(s) : s[i] = x /\ \A j \in 1..(i - 1) : s[j] # x
    ELSE 0

\* list.remove(x): drops the first element equal to x
ListRemove(s, x) == IF IndexOf(s, x) = 0 THEN s ELSE RemoveAt(s, IndexOf(s, x))

(***************************************************************************)
(* firstHopID values and messages.                                         *)
(***************************************************************************)
NoneHop == [kind |-> "none", val |-> 0]
IdHop(id) == [kind |-> "id", val |-> id]
IpHop(id) == [kind |-> "ip", val |-> id]          \* ip_address of satellite id
MethodHop(id) == [kind |-> "method", val |-> id]  \* bound getLastSenderID of a message

SatID(i) == 10 + i

MakeTaskID(counter, sat) == counter * SatBase + sat

Task(taskID, limit) == [taskID |-> taskID, unixTimestampLimit |-> limit]

ImageDataMessage(payload, firstHopID) ==
    [type |-> "IMAGE", taskID |-> payload.taskID,
     unixTimestampLimit |-> payload.unixTimestampLimit, source |-> 0,
     firstHopID |-> firstHopID, lastSenderID |-> 0]

RespondMessage(taskID, source, firstHopID, lastSenderID) ==
    [type |-> "RESPOND", taskID |-> taskID, unixTimestampLimit |-> 0,
     source |-> source, firstHopID |-> firstHopID, lastSenderID |-> lastSenderID]

(***************************************************************************)
(* Configuration: the ring neighbours of this node.                        *)
(***************************************************************************)
connections ==
    LET N == Len(nodes)
        idx == IndexOf(nodes, satelliteID) - 1
    IN <<nodes[PyMod(idx - 1, N) + 1], nodes[PyMod(idx + 1, N) + 1]>>

connectionsIP == <<IpHop(connections[1]), IpHop(connections[2])>>

(***************************************************************************)
(* OrbitalPositionThread.                                                  *)
(***************************************************************************)
\* calculateDistance(angle, orbitalRadius, 0, RADIUS_EARTH) grows with the
\* circular distance of the angle from 0, which stands for it here.
GroundDistance(angle) ==
    LET m == angle % AngleSteps
    IN IF m <= AngleSteps - m THEN m ELSE AngleSteps - m

\* a slip in the comparison: on equal distances the later satellite wins
RECURSIVE ClosestLoopLastWins(_, _, _, _, _)
ClosestLoopLastWins(keys, angles, k, ID, smallestDistance) ==
    IF k > Len(keys) THEN ID
    ELSE LET distance == GroundDistance(angles[keys[k]])
         IN IF distance <= smallestDistance
            THEN ClosestLoopLastWins(keys, angles, k + 1, keys[k], distance)
            ELSE ClosestLoopLastWins(keys, angles, k + 1, ID, smallestDistance)

RECURSIVE ClosestLoop(_, _, _, _, _)
ClosestLoop(keys, angles, k, ID, smallestDistance) ==
    IF k > Len(keys) THEN ID
    ELSE LET distance == GroundDistance(angles[keys[k]])
         IN IF distance < smallestDistance
            THEN ClosestLoop(keys, angles, k + 1, keys[k], distance)
            ELSE ClosestLoop(keys, angles, k + 1, ID, smallestDistance)

CalculateSatClosestToGround(keys, angles) ==
    ClosestLoop(keys, angles, 1, 0, AngleSteps + 1)

RECURSIVE PriorityLoop(_, _, _, _, _)
PriorityLoop(priorityList, i, N, startIdx, satClosestToGroundIdx) ==
    IF i > (N + 1) \div 2 THEN priorityList
    ELSE LET counterclockwiseDistance == Abs(satClosestToGroundIdx - (startIdx - i))
             clockwiseDistance == N - Abs((startIdx + i) - satClosestToGroundIdx)
             plus == nodes[PyMod(startIdx + i, N) + 1]
             minus == nodes[PyMod(startIdx - i, N) + 1]
             appended == IF clockwiseDistance <= counterclockwiseDistance
                         THEN priorityList \o <<plus, minus>>
                         ELSE priorityList \o <<minus, plus>>
         IN IF PyMod(startIdx + i, N) = satClosestToGroundIdx
               \/ PyMod(startIdx - i, N) = satClosestToGroundIdx
            THEN Append(appended, GROUND)
            ELSE PriorityLoop(appended, i + 1, N, startIdx, satClosestToGroundIdx)

GetSatellitePriorityList ==
    IF satelliteID = satClosestToGround
    THEN <<satelliteID, GROUND>>
    ELSE PriorityLoop(<<satelliteID>>, 1, Len(nodes),
                      IndexOf(nodes, satelliteID) - 1,
                      IndexOf(nodes, satClosestToGround) - 1)

(***************************************************************************)
(* AcceptedRequestQueue: a mapping taskID -> [frequency, expiry] with the  *)
(* operations CommunicationThread calls, and its sweep thread.             *)
(***************************************************************************)
NoFrequency == 0    \* what getFrequency returns for a taskID that is not queued

EmptyRegistry == [t \in {} |-> 0]

\* a slip in the insert: an entry that is already there is kept
AddMessageKeepFirst(reg, message, frequency) ==
    [t \in (DOMAIN reg) \cup {message.taskID} |->
        IF t \in DOMAIN reg
        THEN reg[t]
        ELSE [frequency |-> frequency, expiry |-> message.unixTimestampLimit]]

AddMessage(reg, message, frequency) ==
    [t \in (DOMAIN reg) \cup {message.taskID} |->
        IF t = message.taskID
        THEN [frequency |-> frequency, expiry |-> message.unixTimestampLimit]
        ELSE reg[t]]

GetIDInQueue(reg) == DOMAIN reg

GetFrequency(reg, taskID) ==
    IF taskID \in DOMAIN reg THEN reg[taskID].frequency ELSE NoFrequency

RemoveMessage(reg, taskID) == [t \in (DOMAIN reg) \ {taskID} |-> reg[t]]

Expired(reg) == {t \in DOMAIN reg : reg[t].expiry < now}

\* the sweep thread: drops the entries whose expiry has passed
Sweep ==
    /\ Expired(acceptedRequestsQueue) # {}
    /\ acceptedRequestsQueue' =
          [t \in (DOMAIN acceptedRequestsQueue) \ Expired(acceptedRequestsQueue) |->
              acceptedRequestsQueue[t]]
    /\ UNCHANGED <<configVars, sent, flight, threadVars, orbitVars, collectorVars, transmissionQueue, routerVars,
                   allocatedTasks, now, delivered, historyVars>>

AdvanceTime ==
    /\ now < MaxTime
    /\ now' = now + 1
    /\ UNCHANGED <<configVars, sent, flight, threadVars, orbitVars, collectorVars, transmissionQueue, routerVars,
                   registryVars, delivered, historyVars>>

(***************************************************************************)
(* ResponseHandler.                                                        *)
(***************************************************************************)
\* priorityList[-(i)] for i = 0 .. len-1: index 0 first, then the tail backwards
NegIndex(len, i) == IF i = 0 THEN 1 ELSE len - i + 1

RECURSIVE GetPriorityLoop(_, _, _)
GetPriorityLoop(priorityList, responseList, i) ==
    IF i >= Len(priorityList) THEN NoneHop
    ELSE IF priorityList[NegIndex(Len(priorityList), i)] = responseList[1].source
         THEN IdHop(responseList[1].lastSenderID)
    ELSE IF priorityList[NegIndex(Len(priorityList), i)] = responseList[2].source
         THEN IdHop(responseList[2].lastSenderID)
    ELSE GetPriorityLoop(priorityList, responseList, i + 1)

GetPriority(responseList) ==
    GetPriorityLoop(GetSatellitePriorityList, responseList, 0)

\* a slip in the fallback: both packets addressed to the same neighbour
TimeoutPacketsSameHop(entry) ==
    IF Len(entry.responseMessages) = 1
    THEN <<ImageDataMessage(entry.task, MethodHop(entry.responseMessages[1].lastSenderID))>>
    ELSE IF Len(entry.responseMessages) = 0
    THEN <<ImageDataMessage(entry.task, connectionsIP[1]),
           ImageDataMessage(entry.task, connectionsIP[1])>>
    ELSE <<>>

\* a slip in the branches: the time-out is logged in the one-response branch
TimeoutLogOneResponse(entry) ==
    IF Len(entry.responseMessages) = 1 THEN <<entry.task.taskID>> ELSE <<>>

\* the IMAGE-DATA messages one expired entry puts on the transmission queue
TimeoutPackets(entry) ==
    IF Len(entry.responseMessages) = 1
    THEN <<ImageDataMessage(entry.task, MethodHop(entry.responseMessages[1].lastSenderID))>>
    ELSE IF Len(entry.responseMessages) = 0
    THEN <<ImageDataMessage(entry.task, connectionsIP[2]),
           ImageDataMessage(entry.task, connectionsIP[1])>>
    ELSE <<>>

TimeoutLog(entry) ==
    IF Len(entry.responseMessages) = 0 THEN <<entry.task.taskID>> ELSE <<>>

\* a slip in the test of line 62: the time-out fires one tick early
RECURSIVE DecrementLoopEarly(_, _, _, _)
DecrementLoopEarly(resp, queue, lg, pos) ==
    IF pos > Len(resp) THEN [responses |-> resp, queue |-> queue, log |-> lg]
    ELSE LET i == resp[pos]
         IN IF ~(i.timeLimit <= 1)
            THEN DecrementLoopEarly([resp EXCEPT ![pos].timeLimit = @ - 1], queue, lg, pos + 1)
            ELSE DecrementLoopEarly(ListRemove(resp, i), queue \o TimeoutPackets(i),
                                    lg \o TimeoutLog(i), pos + 1)

\* "for i in self.responses" with self.responses.remove(i) in the body: the
\* list iterator keeps its position, so the entry after a removed one is skipped
RECURSIVE DecrementLoop(_, _, _, _)
DecrementLoop(resp, queue, lg, pos) ==
    IF pos > Len(resp) THEN [responses |-> resp, queue |-> queue, log |-> lg]
    ELSE LET i == resp[pos]
         IN IF ~(i.timeLimit <= 0)
            THEN DecrementLoop([resp EXCEPT ![pos].timeLimit = @ - 1], queue, lg, pos + 1)
            ELSE DecrementLoop(ListRemove(resp, i), queue \o TimeoutPackets(i),
                               lg \o TimeoutLog(i), pos + 1)

\* the entries addResponse appends the response to
RECURSIVE AddResponseLoop(_, _, _, _)
AddResponseLoop(resp, queue, response, pos) ==
    IF pos > Len(resp) THEN [responses |-> resp, queue |-> queue]
    ELSE IF resp[pos].task.taskID = response.taskID
         THEN LET msgs == Append(resp[pos].responseMessages, response)
                  resp2 == [resp EXCEPT ![pos].responseMessages = msgs]
              IN IF Len(msgs) = 2
                 THEN AddResponseLoop(resp2,
                          Append(queue, ImageDataMessage(resp[pos].task, GetPriority(msgs))),
                          response, pos + 1)
                 ELSE AddResponseLoop(resp2, queue, response, pos + 1)
         ELSE AddResponseLoop(resp, queue, response, pos + 1)

\* giveTask -> ResponseHandler.addTask
AddTask ==
    /\ taskCount < MaxTasks
    /\ \E window \in 0..MaxWindow :
         LET task == Task(MakeTaskID(taskCount + 1, satelliteID), now + window)
             responseTimeLimit == task.unixTimestampLimit - now
         IN responses' = Append(responses,
                [task |-> task, timeLimit |-> responseTimeLimit,
                 responseMessages |-> <<>>])
    /\ taskCount' = taskCount + 1
    /\ UNCHANGED <<configVars, sent, flight, threadVars, orbitVars, transmissionQueue, log, routerVars,
                   registryVars, now, delivered, historyVars>>

\* ResponseHandler.run: one decrementTime call
DecrementTime ==
    LET r == DecrementLoop(responses, transmissionQueue, log, 1)
    IN /\ responses' = r.responses
       /\ transmissionQueue' = r.queue
       /\ log' = r.log
       /\ UNCHANGED <<configVars, sent, flight, threadVars, orbitVars, taskCount, routerVars, registryVars,
                      now, delivered, historyVars>>

\* messageTypeHandle, type RESPOND: responseHandler.addResponse(message)
HandleRespond(message) ==
    LET r == AddResponseLoop(responses, transmissionQueue, message, 1)
    IN /\ responses' = r.responses
       /\ transmissionQueue' = r.queue
       /\ UNCHANGED <<log, taskCount, registryVars>>

(***************************************************************************)
(* The collector with its inputs: RESPOND messages are handled as soon as  *)
(* a neighbour hands them over.                                            *)
(***************************************************************************)
NodeIDs == {nodes[k] : k \in 1..Len(nodes)}

OwnTaskIDs == {MakeTaskID(c, satelliteID) : c \in 1..MaxTasks}

\* the RESPOND messages a neighbour can hand over
RespondInputs ==
    {RespondMessage(t, s, IdHop(satelliteID), l) :
        t \in OwnTaskIDs, s \in NodeIDs, l \in {connections[1], connections[2]}}

DeliverRespond ==
    /\ delivered < MaxResponds
    /\ \E message \in RespondInputs : HandleRespond(message)
    /\ delivered' = delivered + 1
    /\ UNCHANGED <<configVars, sent, flight, threadVars, orbitVars, routerVars, now, historyVars>>

\* the worker threads of one node
Workers == {"left", "right", "router", "collector", "orbit"}

RingInit(N) ==
    /\ nodes = [k \in 1..N |-> SatID(k - 1)]
    /\ satelliteID \in {SatID(k - 1) : k \in 1..N}
    /\ \E first \in 0..(N - 1) :
         currentAngle = [id \in {SatID(k - 1) : k \in 1..N} |->
                            (first + (id - SatID(0))) * (AngleSteps \div N)]
    /\ satClosestToGround = CalculateSatClosestToGround(nodes, currentAngle)

IdleInit ==
    /\ responses = <<>>
    /\ transmissionQueue = <<>>
    /\ log = <<>>
    /\ taskCount = 0
    /\ messageList = <<>>
    /\ routerIdx = 0
    /\ routerPc = "idle"
    /\ acceptedRequestsQueue = EmptyRegistry
    /\ allocatedTasks = <<>>
    /\ now = 0
    /\ delivered = 0
    /\ cancelled = {}
    /\ lastHandled = [type |-> "none", taskID |-> 0]
    /\ sent = <<>>
    /\ workers = [w \in Workers |-> "running"]
    /\ stopFlag = FALSE
    /\ tickIdx = 0
    /\ tickPc = "idle"
    /\ orbitIdx = 0
    /\ snapshot = [angles |-> currentAngle, closest |-> satClosestToGround]
    /\ flight = {}

InitCollector == (\E N \in 3..MaxRing : RingInit(N)) /\ IdleInit

NextCollector == AddTask \/ DeliverRespond \/ DecrementTime

SpecCollector == InitCollector /\ [][NextCollector]_vars

(***************************************************************************)
(* The executor boundary (TaskHandlerThread).                              *)
(***************************************************************************)
Frequencies == {1, 2}

\* allocateTaskToSelf: a black box answering (accepted, frequency)
Allocations == {<<FALSE, NoFrequency>>} \cup {<<TRUE, f>> : f \in Frequencies}

AppendTask(tasks, task, frequency) == Append(tasks, [task |-> task, frequency |-> frequency])

(***************************************************************************)
(* CommunicationThread: messageTypeHandle and the run loop.                *)
(***************************************************************************)
RequestMessage(taskID, limit, lastSenderID) ==
    [type |-> "REQUEST", taskID |-> taskID, unixTimestampLimit |-> limit,
     source |-> 0, firstHopID |-> NoneHop, lastSenderID |-> lastSenderID]

ResponseNackMessage(taskID, lastSenderID) ==
    [type |-> "NACK", taskID |-> taskID, unixTimestampLimit |-> 0,
     source |-> 0, firstHopID |-> NoneHop, lastSenderID |-> lastSenderID]

ProcessedDataMessage(firstHopID, lastSenderID) ==
    [type |-> "PROCESSED", taskID |-> 0, unixTimestampLimit |-> 0,
     source |-> 0, firstHopID |-> firstHopID, lastSenderID |-> lastSenderID]

Payload(message) == Task(message.taskID, message.unixTimestampLimit)

\* a slip in sendRespond: the RESPOND names this node as its first hop
SendRespondToSelf(message) ==
    RespondMessage(message.taskID, satelliteID, IdHop(satelliteID), 0)

SendRespond(message) ==
    RespondMessage(message.taskID, satelliteID, IdHop(message.lastSenderID), 0)

\* a slip: the message is queued twice
AddTransmissionTwice(queue, message) == Append(Append(queue, message), message)

AddTransmission(queue, message) == Append(queue, message)

\* the message the list iterator of run() points at
CurrentMessage == messageList[routerIdx + 1]

Fetched(type) ==
    /\ routerIdx < Len(messageList)
    /\ CurrentMessage.type = type

\* messageTypeHandle returned: self.messageList.remove(message), next iteration
Finish ==
    /\ messageList' = RemoveAt(messageList, routerIdx + 1)
    /\ routerIdx' = routerIdx + 1
    /\ routerPc' = "idle"
    /\ lastHandled' = [type |-> CurrentMessage.type, taskID |-> CurrentMessage.taskID]

\* the registry after a REQUEST was handled with the given allocation
RequestRegistry(reg, message, allocation) ==
    IF allocation[1] THEN AddMessage(reg, message, allocation[2]) ELSE reg

\* the transmission queue after a REQUEST was handled with the given allocation
RequestQueue(queue, message, allocation) ==
    IF allocation[1]
    THEN AddTransmission(queue, SendRespond(message))
    ELSE AddTransmission(queue, message)

RouteRequest ==
    /\ routerPc = "idle"
    /\ Fetched("REQUEST")
    /\ \E allocation \in Allocations :
          /\ acceptedRequestsQueue' =
                RequestRegistry(acceptedRequestsQueue, CurrentMessage, allocation)
          /\ transmissionQueue' =
                RequestQueue(transmissionQueue, CurrentMessage, allocation)
          /\ cancelled' = IF allocation[1] THEN cancelled \ {CurrentMessage.taskID}
                          ELSE cancelled
    /\ Finish
    /\ UNCHANGED <<configVars, sent, flight, threadVars, orbitVars, collectorVars, allocatedTasks, now, delivered>>

RouteRespond ==
    /\ routerPc = "idle"
    /\ Fetched("RESPOND")
    /\ HandleRespond(CurrentMessage)
    /\ Finish
    /\ UNCHANGED <<configVars, sent, flight, threadVars, orbitVars, now, delivered, cancelled>>

\* IMAGE-DATA, line 146: the membership test, and the else branch
RouteImageCheck ==
    /\ routerPc = "idle"
    /\ Fetched("IMAGE")
    /\ IF CurrentMessage.taskID \in GetIDInQueue(acceptedRequestsQueue)
       THEN /\ routerPc' = "image"
            /\ UNCHANGED <<messageList, routerIdx, transmissionQueue, lastHandled>>
       ELSE /\ transmissionQueue' = AddTransmission(transmissionQueue, CurrentMessage)
            /\ Finish
    /\ UNCHANGED <<configVars, sent, flight, threadVars, orbitVars, collectorVars, registryVars, now, delivered,
                   cancelled>>

\* IMAGE-DATA, lines 147-151: getFrequency, appendTask, removeMessage
RouteImageAccept ==
    /\ routerPc = "image"
    /\ allocatedTasks' =
          AppendTask(allocatedTasks, Payload(CurrentMessage),
                     GetFrequency(acceptedRequestsQueue, CurrentMessage.taskID))
    /\ acceptedRequestsQueue' = RemoveMessage(acceptedRequestsQueue, CurrentMessage.taskID)
    /\ Finish
    /\ UNCHANGED <<configVars, sent, flight, threadVars, orbitVars, collectorVars, transmissionQueue, now, delivered,
                   cancelled>>

\* a slip in the else branch: the unknown NACK is queued as an accepted request
RouteNackCheckAdmits ==
    /\ routerPc = "idle"
    /\ Fetched("NACK")
    /\ IF CurrentMessage.taskID \in GetIDInQueue(acceptedRequestsQueue)
       THEN /\ routerPc' = "nack"
            /\ UNCHANGED <<messageList, routerIdx, acceptedRequestsQueue, lastHandled>>
       ELSE /\ acceptedRequestsQueue' =
                  AddMessage(acceptedRequestsQueue, CurrentMessage, NoFrequency)
            /\ Finish
    /\ UNCHANGED <<configVars, sent, flight, threadVars, orbitVars, collectorVars, transmissionQueue, allocatedTasks,
                   now, delivered, cancelled>>

\* RESPONSE-NACK, line 157: the membership test, and the else branch
RouteNackCheck ==
    /\ routerPc = "idle"
    /\ Fetched("NACK")
    /\ IF CurrentMessage.taskID \in GetIDInQueue(acceptedRequestsQueue)
       THEN /\ routerPc' = "nack"
            /\ UNCHANGED <<messageList, routerIdx, transmissionQueue, lastHandled>>
       ELSE /\ transmissionQueue' = AddTransmission(transmissionQueue, CurrentMessage)
            /\ Finish
    /\ UNCHANGED <<configVars, sent, flight, threadVars, orbitVars, collectorVars, registryVars, now, delivered,
                   cancelled>>

\* a slip in the if branch: the entry is reported removed but stays queued
RouteNackKeep ==
    /\ routerPc = "nack"
    /\ cancelled' = cancelled \cup {CurrentMessage.taskID}
    /\ Finish
    /\ UNCHANGED <<configVars, sent, flight, threadVars, orbitVars, collectorVars, transmissionQueue,
                   registryVars, now, delivered>>

\* RESPONSE-NACK, line 159: removeMessage
RouteNackRemove ==
    /\ routerPc = "nack"
    /\ acceptedRequestsQueue' = RemoveMessage(acceptedRequestsQueue, CurrentMessage.taskID)
    /\ cancelled' = cancelled \cup {CurrentMessage.taskID}
    /\ Finish
    /\ UNCHANGED <<configVars, sent, flight, threadVars, orbitVars, collectorVars, transmissionQueue,
                   allocatedTasks, now, delivered>>

RouteProcessed ==
    /\ routerPc = "idle"
    /\ Fetched("PROCESSED")
    /\ transmissionQueue' = Append(transmissionQueue, CurrentMessage)
    /\ Finish
    /\ UNCHANGED <<configVars, sent, flight, threadVars, orbitVars, collectorVars, registryVars, now, delivered,
                   cancelled>>

\* a slip at the end of a pass: what the pass left behind is thrown away
RouterRestartClear ==
    /\ routerPc = "idle"
    /\ routerIdx > 0
    /\ routerIdx >= Len(messageList)
    /\ routerIdx' = 0
    /\ messageList' = <<>>
    /\ UNCHANGED <<configVars, sent, flight, threadVars, orbitVars, collectorVars, transmissionQueue,
                   routerPc, registryVars, now, delivered, historyVars>>

\* the for loop of run() ran off the end of the list: the next pass starts over
RouterRestart ==
    /\ routerPc = "idle"
    /\ routerIdx > 0
    /\ routerIdx >= Len(messageList)
    /\ routerIdx' = 0
    /\ UNCHANGED <<configVars, sent, flight, threadVars, orbitVars, collectorVars, transmissionQueue, messageList,
                   routerPc, registryVars, now, delivered, historyVars>>

(***************************************************************************)
(* The listeners and the messages the two neighbours hand over.            *)
(***************************************************************************)
ForeignTaskIDs == {MakeTaskID(1, connections[1]), MakeTaskID(1, connections[2])}

RouterInputs ==
    {RequestMessage(t, RequestDeadline, l) :
        t \in ForeignTaskIDs, l \in {connections[1], connections[2]}}
    \cup {[ImageDataMessage(Task(t, RequestDeadline), IdHop(satelliteID))
             EXCEPT !.lastSenderID = connections[1]] : t \in ForeignTaskIDs}
    \cup {ResponseNackMessage(t, connections[1]) : t \in ForeignTaskIDs}
    \cup {ProcessedDataMessage(NoneHop, connections[2])}
    \cup {RespondMessage(MakeTaskID(1, satelliteID), connections[1],
                         IdHop(satelliteID), connections[1])}

\* ListeningThread.addMessageList
AddMessageList ==
    /\ delivered < MaxDelivered
    /\ \E message \in RouterInputs : messageList' = Append(messageList, message)
    /\ delivered' = delivered + 1
    /\ UNCHANGED <<configVars, sent, flight, threadVars, orbitVars, collectorVars, transmissionQueue, routerIdx,
                   routerPc, registryVars, now, historyVars>>

InitRouter ==
    /\ RingInit(3)
    /\ satelliteID = SatID(1)
    /\ satClosestToGround = SatID(0)
    /\ IdleInit

NextRouter ==
    \/ AddMessageList
    \/ RouteRequest
    \/ RouteRespond
    \/ RouteImageCheck
    \/ RouteImageAccept
    \/ RouteNackCheck
    \/ RouteNackRemove
    \/ RouteProcessed
    \/ RouterRestart
    \/ Sweep
    \/ AdvanceTime

SpecRouter == InitRouter /\ [][NextRouter]_vars

(***************************************************************************)
(* The orbit, the priority list and the executor's result messages: the    *)
(* orbital tick moves every satellite, tasks of the node's own missions    *)
(* are allocated to the node itself, and the detection thread turns each   *)
(* allocated task into PROCESSED-DATA messages.                            *)
(***************************************************************************)
Min(a, b) == IF a <= b THEN a ELSE b

\* a slip: the hops are counted in one direction only
PathDistanceOneWay(source, destination) ==
    LET N == Len(nodes)
        targetIdx == IndexOf(nodes, destination) - 1
        startIdx == IndexOf(nodes, source) - 1
    IN Abs(targetIdx - startIdx) % N

\* getPathDistanceToDestination(source, destination)[0]
GetPathDistanceToDestination(source, destination) ==
    LET N == Len(nodes)
        targetIdx == IndexOf(nodes, destination) - 1
        startIdx == IndexOf(nodes, source) - 1
        counterclockwiseDistance == Abs(targetIdx - startIdx) % N
        clockwiseDistance == N - (Abs(startIdx - targetIdx) % N)
    IN Min(clockwiseDistance, counterclockwiseDistance)

\* a slip: the angles are reduced modulo a full turn
OrbitTickWrap ==
    /\ currentAngle[satelliteID] < MaxAngle
    /\ currentAngle' = [id \in DOMAIN currentAngle |-> (currentAngle[id] + 1) % AngleSteps]
    /\ satClosestToGround' = CalculateSatClosestToGround(nodes, currentAngle')
    /\ UNCHANGED <<configVars, sent, flight, threadVars, collectorVars, transmissionQueue,
                   routerVars, registryVars, now, delivered, historyVars>>

\* run: __updatePositions(tickRate), then calculateSatClosestToGround().
\* The angles grow by the same step on every tick and are never reduced.
OrbitTick ==
    /\ currentAngle[satelliteID] < MaxAngle
    /\ currentAngle' = [id \in DOMAIN currentAngle |-> currentAngle[id] + 1]
    /\ satClosestToGround' = CalculateSatClosestToGround(nodes, currentAngle')
    /\ UNCHANGED <<configVars, sent, flight, threadVars, collectorVars, transmissionQueue, routerVars, registryVars,
                   now, delivered, historyVars>>

\* the node's task handler allocates a task of its own mission to itself
AllocateLocal ==
    /\ taskCount < MaxTasks
    /\ \E f \in Frequencies :
          allocatedTasks' = AppendTask(allocatedTasks,
                                Task(MakeTaskID(taskCount + 1, satelliteID), RequestDeadline), f)
    /\ taskCount' = taskCount + 1
    /\ UNCHANGED <<configVars, sent, flight, threadVars, orbitVars, responses, log, transmissionQueue, routerVars,
                   acceptedRequestsQueue, now, delivered, historyVars>>

\* getMessageList, lines 92-100: the walk over priority_list[-(i+1)]
RECURSIVE FirstHopLoop(_, _)
FirstHopLoop(priority_list, i) ==
    IF i >= Len(priority_list) THEN NoneHop
    ELSE LET e == priority_list[Len(priority_list) - i]
         IN IF e = connections[1] \/ e = connections[2]
            THEN IdHop(e)
            ELSE FirstHopLoop(priority_list, i + 1)

\* getMessageList, lines 87-100: the firstHopID of the PROCESSED-DATA messages
GetMessageFirstHop ==
    IF satClosestToGround = satelliteID
    THEN NoneHop
    ELSE FirstHopLoop(GetSatellitePriorityList, 0)

RECURSIVE Repeat(_, _)
Repeat(x, n) == IF n = 0 THEN <<>> ELSE <<x>> \o Repeat(x, n - 1)

\* ObjectDetectionThread.run: nextTask, runInference, getMessageList (one
\* message per bounding box), sendProcessedDataMessage
RunDetection ==
    /\ allocatedTasks # <<>>
    /\ allocatedTasks' = Tail(allocatedTasks)
    /\ \E boxes \in 0..MaxCrops :
          transmissionQueue' =
              transmissionQueue \o Repeat(ProcessedDataMessage(GetMessageFirstHop, 0), boxes)
    /\ UNCHANGED <<configVars, sent, flight, threadVars, orbitVars, collectorVars, routerVars, acceptedRequestsQueue,
                   now, delivered, historyVars>>

InitOrbit == (\E N \in 1..MaxRing : RingInit(N)) /\ IdleInit

NextOrbit == OrbitTick \/ AllocateLocal \/ RunDetection

SpecOrbit == InitOrbit /\ [][NextOrbit]_vars

\* canExecuteMission: has the own angle passed radian + 2*pi*(orbitNumber - 1)
CanExecuteMission(angles, radian, orbitNumber) ==
    LET angle == radian + AngleSteps * (orbitNumber - 1)
    IN angle <= angles[satelliteID]

\* OrbitalPositionThread.run never stops ticking
SpecOrbitFair == InitOrbit /\ [][NextOrbit]_vars /\ WF_vars(OrbitTick)

(***************************************************************************)
(* The node as originator: it hands out tasks of its own (giveTask), the   *)
(* collector ticks, and the neighbours also hand over RESPOND and          *)
(* RESPONSE-NACK messages for its own tasks.                               *)
(***************************************************************************)
OriginatorInputs ==
    {RespondMessage(MakeTaskID(1, satelliteID), s, IdHop(satelliteID), l) :
        s \in {connections[1], connections[2]}, l \in {connections[1], connections[2]}}
    \cup {ResponseNackMessage(MakeTaskID(1, satelliteID), l) :
        l \in {connections[1], connections[2]}}
    \cup {RequestMessage(MakeTaskID(1, connections[1]), RequestDeadline, connections[1]),
          ResponseNackMessage(MakeTaskID(1, connections[1]), connections[1]),
          [ImageDataMessage(Task(MakeTaskID(1, connections[1]), RequestDeadline),
                            IdHop(satelliteID)) EXCEPT !.lastSenderID = connections[1]],
          ProcessedDataMessage(NoneHop, connections[2])}

\* ListeningThread.addMessageList at the originator
AddOriginatorMessage ==
    /\ delivered < MaxDelivered
    /\ \E message \in OriginatorInputs : messageList' = Append(messageList, message)
    /\ delivered' = delivered + 1
    /\ UNCHANGED <<configVars, sent, flight, threadVars, orbitVars, collectorVars, transmissionQueue, routerIdx,
                   routerPc, registryVars, now, historyVars>>

NextOriginator ==
    \/ AddTask
    \/ DecrementTime
    \/ AddOriginatorMessage
    \/ RouteRequest
    \/ RouteRespond
    \/ RouteImageCheck
    \/ RouteImageAccept
    \/ RouteNackCheck
    \/ RouteNackRemove
    \/ RouteProcessed
    \/ RouterRestart

SpecOriginator == InitRouter /\ [][NextOriginator]_vars

(***************************************************************************)
(* The worker threads: the two listeners read frames from their links,     *)
(* the router, the collector tick and the orbital tick loop, and the stop  *)
(* events of the listeners can be set.                                     *)
(***************************************************************************)
Sides == {"left", "right"}

SideNeighbour(side) == IF side = "left" THEN connections[1] ELSE connections[2]

\* what one accepted connection can carry: a well-formed frame ("ok"), no
\* data at all ("closed"), or one of the malformed frames
Malformed == {"short_prefix", "zero_length", "truncated", "undecodable"}

FrameKinds == {"ok", "closed"} \cup Malformed

\* the messages the neighbour on one side sends
LinkInputs(side) ==
    IF side = "left"
    THEN {RequestMessage(MakeTaskID(1, connections[1]), RequestDeadline, connections[1]),
          [ImageDataMessage(Task(MakeTaskID(1, connections[1]), RequestDeadline),
                            IdHop(satelliteID)) EXCEPT !.lastSenderID = connections[1]],
          ResponseNackMessage(MakeTaskID(1, connections[1]), connections[1])}
    ELSE {RequestMessage(MakeTaskID(1, connections[2]), RequestDeadline, connections[2]),
          ProcessedDataMessage(NoneHop, connections[2]),
          RespondMessage(MakeTaskID(1, satelliteID), connections[2],
                         IdHop(satelliteID), connections[2])}

\* stands for the message of a frame that carries none
NoMessage == [type |-> "none"]

\* the listener after one pass of its loop: the stop event is tested at the
\* top of the loop only
AfterFrame(side) ==
    [workers EXCEPT ![side] = IF stopFlag THEN "exited" ELSE "running"]

\* activeListening, one pass of the loop (lines 42-63): accept, recv(4),
\* struct.unpack, recv of the body, pickle loads, addMessageList. An empty
\* prefix is skipped with continue; struct.unpack of a short prefix and loads
\* of an empty, truncated or undecodable body raise, and nothing catches it.
ReceiveFrame(side, kind, message) ==
    /\ workers[side] = "running"
    /\ delivered < MaxDelivered
    /\ delivered' = delivered + 1
    /\ messageList' = IF kind = "ok" THEN Append(messageList, message) ELSE messageList
    /\ workers' = IF kind \in Malformed
                  THEN [workers EXCEPT ![side] = "crashed"]
                  ELSE AfterFrame(side)
    /\ UNCHANGED <<configVars, sent, flight, orbitVars, collectorVars, transmissionQueue, routerIdx,
                   routerPc, registryVars, now, historyVars, stopFlag, tickIdx, tickPc,
                   orbitIdx, snapshot>>

ListenerReceive ==
    \E side \in Sides :
        \/ \E message \in LinkInputs(side) : ReceiveFrame(side, "ok", message)
        \/ \E kind \in FrameKinds \ {"ok"} : ReceiveFrame(side, kind, NoMessage)

\* ListeningThread.stop, called for both listeners
SetStop ==
    /\ ~stopFlag
    /\ stopFlag' = TRUE
    /\ UNCHANGED <<configVars, sent, flight, orbitVars, collectorVars, transmissionQueue, routerVars,
                   registryVars, now, delivered, historyVars, workers, tickIdx, tickPc,
                   orbitIdx, snapshot>>

\* the steps of CommunicationThread.run
RouterSteps ==
    \/ RouteRequest
    \/ RouteRespond
    \/ RouteImageCheck
    \/ RouteImageAccept
    \/ RouteNackCheck
    \/ RouteNackRemove
    \/ RouteProcessed
    \/ RouterRestart

NextWorkers ==
    \/ ListenerReceive
    \/ SetStop
    \/ RouterSteps
    \/ DecrementTime
    \/ OrbitTick

\* the router, the collector tick and the orbital tick are threads of their
\* own and keep being scheduled
SpecWorkers ==
    /\ InitRouter
    /\ [][NextWorkers]_vars
    /\ WF_vars(RouterSteps)
    /\ WF_vars(DecrementTime)
    /\ WF_vars(OrbitTick)

(***************************************************************************)
(* decrementTime statement by statement: the collector thread and the      *)
(* router thread share self.responses and the transmission queue without a *)
(* lock, so addResponse can run between any two statements of the tick.    *)
(***************************************************************************)
\* lines 61-79 for the entry under the iterator: the test, then either the
\* decrement or the emission of the time-out packets
TickVisit ==
    /\ tickPc = "idle"
    /\ tickIdx < Len(responses)
    /\ LET i == responses[tickIdx + 1]
       IN IF ~(i.timeLimit <= 0)
          THEN /\ responses' = [responses EXCEPT ![tickIdx + 1].timeLimit = @ - 1]
               /\ tickIdx' = tickIdx + 1
               /\ UNCHANGED <<transmissionQueue, log, tickPc>>
          ELSE /\ transmissionQueue' = transmissionQueue \o TimeoutPackets(i)
               /\ log' = log \o TimeoutLog(i)
               /\ tickPc' = "remove"
               /\ UNCHANGED <<responses, tickIdx>>
    /\ UNCHANGED <<configVars, sent, flight, workers, stopFlag, orbitIdx, snapshot, orbitVars,
                   taskCount, routerVars, registryVars, now, delivered, historyVars>>

\* a slip at line 80: an entry that holds two or more responses is left in
\* the list
TickRemoveUnanswered ==
    /\ tickPc = "remove"
    /\ responses' = IF Len(responses[tickIdx + 1].responseMessages) >= 2
                    THEN responses
                    ELSE ListRemove(responses, responses[tickIdx + 1])
    /\ tickIdx' = tickIdx + 1
    /\ tickPc' = "idle"
    /\ UNCHANGED <<configVars, sent, flight, workers, stopFlag, orbitIdx, snapshot, orbitVars,
                   transmissionQueue, log, taskCount, routerVars, registryVars, now,
                   delivered, historyVars>>

\* line 80: self.responses.remove(i); the iterator moves on
TickRemove ==
    /\ tickPc = "remove"
    /\ responses' = ListRemove(responses, responses[tickIdx + 1])
    /\ tickIdx' = tickIdx + 1
    /\ tickPc' = "idle"
    /\ UNCHANGED <<configVars, sent, flight, workers, stopFlag, orbitIdx, snapshot, orbitVars,
                   transmissionQueue, log, taskCount, routerVars, registryVars, now,
                   delivered, historyVars>>

\* the iterator is exhausted: decrementTime returns, run sleeps and calls again
TickEnd ==
    /\ tickPc = "idle"
    /\ tickIdx > 0
    /\ tickIdx >= Len(responses)
    /\ tickIdx' = 0
    /\ UNCHANGED <<configVars, sent, flight, workers, stopFlag, tickPc, orbitIdx, snapshot,
                   orbitVars, collectorVars, transmissionQueue, routerVars, registryVars,
                   now, delivered, historyVars>>

NextTick == AddTask \/ DeliverRespond \/ TickVisit \/ TickRemove \/ TickEnd

SpecTick == InitRouter /\ [][NextTick]_vars

\* ResponseHandler.run never stops calling decrementTime
TickSteps == TickVisit \/ TickRemove \/ TickEnd

SpecTickFair == InitRouter /\ [][NextTick]_vars /\ WF_vars(TickSteps)

(***************************************************************************)
(* The orbital tick statement by statement, with a reader on another       *)
(* thread: currentAngle and satClosestToGround are plain attributes, no    *)
(* lock guards them.                                                       *)
(***************************************************************************)
\* __updatePositions, one pass of its loop over the keys
OrbitMove ==
    /\ orbitIdx < Len(nodes)
    /\ orbitIdx > 0 \/ currentAngle[satelliteID] < MaxAngle
    /\ currentAngle' = [currentAngle EXCEPT ![nodes[orbitIdx + 1]] = @ + 1]
    /\ orbitIdx' = orbitIdx + 1
    /\ UNCHANGED <<configVars, sent, flight, workers, stopFlag, tickIdx, tickPc, snapshot,
                   satClosestToGround, collectorVars, transmissionQueue, routerVars,
                   registryVars, now, delivered, historyVars>>

\* calculateSatClosestToGround after the loop, line 62
OrbitCalc ==
    /\ orbitIdx = Len(nodes)
    /\ satClosestToGround' = CalculateSatClosestToGround(nodes, currentAngle)
    /\ orbitIdx' = 0
    /\ UNCHANGED <<configVars, sent, flight, workers, stopFlag, tickIdx, tickPc, snapshot,
                   currentAngle, collectorVars, transmissionQueue, routerVars,
                   registryVars, now, delivered, historyVars>>

\* a reader (getSatellitePriorityList, a distance query) picks up the
\* attributes as they are
ReadOrbit ==
    /\ snapshot' = [angles |-> currentAngle, closest |-> satClosestToGround]
    /\ UNCHANGED <<configVars, sent, flight, workers, stopFlag, tickIdx, tickPc, orbitIdx,
                   orbitVars, collectorVars, transmissionQueue, routerVars, registryVars,
                   now, delivered, historyVars>>

NextOrbitTick == OrbitMove \/ OrbitCalc \/ ReadOrbit

SpecOrbitTick == InitOrbit /\ [][NextOrbitTick]_vars

(***************************************************************************)
(* The originating side of TaskHandlerThread: a task of the node's own     *)
(* mission is either kept (allocateTaskToSelf) or given to the collector   *)
(* (giveTask).                                                             *)
(***************************************************************************)
\* allocateTaskToSelf, lines 33-41; x is the admission decision the
\* placeholder of line 35 stands for. The accept branch subscripts the bound
\* method (append[task]) and the decline branch calls sendRequest on the
\* class with the class Task as its only argument: both raise TypeError
\* before anything is stored or queued.
AllocateTaskToSelf(x) ==
    /\ taskCount < MaxTasks
    /\ taskCount' = taskCount + 1
    /\ allocatedTasks' = allocatedTasks
    /\ transmissionQueue' = transmissionQueue
    /\ UNCHANGED <<configVars, sent, flight, threadVars, orbitVars, responses, log, routerVars,
                   acceptedRequestsQueue, now, delivered, historyVars>>

AllocateOwnTask == \E x \in BOOLEAN : AllocateTaskToSelf(x)

NextMission ==
    AllocateOwnTask \/ AddTask \/ DeliverRespond \/ DecrementTime \/ AdvanceTime

SpecMission == InitRouter /\ [][NextMission]_vars

(***************************************************************************)
(* The registry under repeated REQUESTs for one task: the left neighbour   *)
(* hands over the REQUEST with the early deadline, the right neighbour a   *)
(* REQUEST for the same task with a later one.                             *)
(***************************************************************************)
RegistryInputs ==
    LET t == MakeTaskID(1, connections[1])
    IN {RequestMessage(t, RequestDeadline, connections[1]),
        RequestMessage(t, LateDeadline, connections[2]),
        [ImageDataMessage(Task(t, RequestDeadline), IdHop(satelliteID))
            EXCEPT !.lastSenderID = connections[1]],
        ResponseNackMessage(t, connections[1])}

\* ListeningThread.addMessageList
AddRegistryMessage ==
    /\ delivered < MaxDelivered
    /\ \E message \in RegistryInputs : messageList' = Append(messageList, message)
    /\ delivered' = delivered + 1
    /\ UNCHANGED <<configVars, sent, flight, threadVars, orbitVars, collectorVars, transmissionQueue,
                   routerIdx, routerPc, registryVars, now, historyVars>>

NextRegistry ==
    \/ AddRegistryMessage
    \/ RouteRequest
    \/ RouteImageCheck
    \/ RouteImageAccept
    \/ RouteNackCheck
    \/ RouteNackRemove
    \/ RouterRestart
    \/ Sweep
    \/ AdvanceTime

SpecRegistry == InitRouter /\ [][NextRegistry]_vars

(***************************************************************************)
(* The inbox between the listeners and the router: the listeners append    *)
(* while the router's loop drains.                                         *)
(***************************************************************************)
NextInbox == AddMessageList \/ RouterSteps

\* CommunicationThread.run is a thread of its own and keeps being scheduled
SpecInbox == InitRouter /\ [][NextInbox]_vars /\ WF_vars(RouterSteps)

(***************************************************************************)
(* One message on its way round the ring when no node takes it: every node *)
(* runs the same router, declines the REQUEST (or holds no entry for the   *)
(* IMAGE-DATA), queues it unchanged, and its transmitter passes it on.     *)
(***************************************************************************)
RingNeighbours(n) ==
    LET N == Len(nodes)
        idx == IndexOf(nodes, n) - 1
    IN {nodes[PyMod(idx - 1, N) + 1], nodes[PyMod(idx + 1, N) + 1]}

\* the links the transmitter of the node holding copy c puts it on
RingDests(c) ==
    IF c.firstHopID.kind = "id" /\ c.firstHopID.val \in RingNeighbours(c.at)
    THEN {c.firstHopID.val}
    ELSE IF c.type = "REQUEST" THEN RingNeighbours(c.at)
    ELSE RingNeighbours(c.at) \ {c.from}

\* the node creates a task nobody will take and sends the REQUEST to both
\* neighbours, or the IMAGE-DATA to one of them
RingOriginate ==
    /\ taskCount = 0
    /\ flight = {}
    /\ taskCount' = 1
    /\ \/ flight' = {[at |-> d, from |-> satelliteID, type |-> "REQUEST",
                       firstHopID |-> NoneHop] : d \in RingNeighbours(satelliteID)}
       \/ \E d \in RingNeighbours(satelliteID) :
             flight' = {[at |-> d, from |-> satelliteID, type |-> "IMAGE",
                         firstHopID |-> IdHop(d)]}
    /\ UNCHANGED <<configVars, sent, threadVars, orbitVars, responses, log,
                   transmissionQueue, routerVars, registryVars, now, delivered, historyVars>>

\* messageTypeHandle at the node a copy has reached: lines 137-139 for a
\* declined REQUEST, lines 152-154 for an IMAGE-DATA without entry; the
\* message is queued as it is and leaves with lastSenderID = this node
RingForward ==
    /\ \E c \in flight :
          flight' = (flight \ {c})
                       \cup {[c EXCEPT !.at = d, !.from = c.at] : d \in RingDests(c)}
    /\ UNCHANGED <<configVars, sent, threadVars, orbitVars, collectorVars,
                   transmissionQueue, routerVars, registryVars, now, delivered, historyVars>>

NextRing == RingOriginate \/ RingForward

\* every node's router and transmitter keep running
SpecRing == InitCollector /\ [][NextRing]_vars /\ WF_vars(RingForward)

(***************************************************************************)
(* TransmissionThread: drains the transmission queue in FIFO order and     *)
(* puts every message on the link(s) its routing rule names.               *)
(***************************************************************************)
Neighbours == {connections[1], connections[2]}

\* the neighbour an explicit firstHopID names, if it names one
ExplicitHop(message) ==
    IF message.firstHopID.kind \in {"id", "ip"} /\ message.firstHopID.val \in Neighbours
    THEN {message.firstHopID.val}
    ELSE {}

\* the neighbour that comes first in the priority list
PriorityNeighbour ==
    LET pl == GetSatellitePriorityList
        k == CHOOSE k \in 1..Len(pl) :
                /\ pl[k] \in Neighbours
                /\ \A j \in 1..(k - 1) : pl[j] \notin Neighbours
    IN pl[k]

\* the sets of destinations the routing rule allows for a message
LinkChoices(message) ==
    IF ExplicitHop(message) # {} THEN {ExplicitHop(message)}
    ELSE IF message.type = "REQUEST" THEN {Neighbours}
    ELSE IF message.type = "PROCESSED"
         THEN IF satelliteID = satClosestToGround THEN {{GROUND}} ELSE {{PriorityNeighbour}}
    ELSE IF Neighbours \ {message.lastSenderID} = {} THEN {{}}
    ELSE {{n} : n \in Neighbours \ {message.lastSenderID}}

\* a slip: the message leaves with the lastSenderID it came with
StampKeep(message) == message

\* before transmission lastSenderID is overwritten with the own identifier
Stamp(message) == [message EXCEPT !.lastSenderID = satelliteID]

Transmissions(message, dests) ==
    LET one(n) == IF n \in dests
                  THEN <<[to |-> n, message |-> Stamp(message), from |-> message.lastSenderID]>>
                  ELSE <<>>
    IN one(connections[1])
       \o (IF connections[2] # connections[1] THEN one(connections[2]) ELSE <<>>)
       \o one(GROUND)

Transmit ==
    /\ transmissionQueue # <<>>
    /\ \E dests \in LinkChoices(Head(transmissionQueue)) :
          sent' = sent \o Transmissions(Head(transmissionQueue), dests)
    /\ transmissionQueue' = Tail(transmissionQueue)
    /\ UNCHANGED <<configVars, flight, threadVars, orbitVars, collectorVars, routerVars,
                   registryVars, now, delivered, historyVars>>

NextLink ==
    \/ AddMessageList
    \/ RouteRequest
    \/ RouteRespond
    \/ RouteImageCheck
    \/ RouteImageAccept
    \/ RouteNackCheck
    \/ RouteNackRemove
    \/ RouteProcessed
    \/ RouterRestart
    \/ Transmit

SpecLink == InitRouter /\ [][NextLink]_vars

(***************************************************************************)
(* Properties of the collector.                                            *)
(***************************************************************************)
IsImageFor(m, t) == m.type = "IMAGE" /\ m.taskID = t

\* what a step appended to the transmission queue
Appended == SubSeq(transmissionQueue', Len(transmissionQueue) + 1, Len(transmissionQueue'))

ImagesFor(queue, t) == {k \in 1..Len(queue) : IsImageFor(queue[k], t)}

Occurrences(s, x) == Cardinality({k \in 1..Len(s) : s[k] = x})

HasEntry(resp, t) == \E k \in 1..Len(resp) : resp[k].task.taskID = t

\* the tasks whose entries one decrementTime call looks at
RECURSIVE Visits(_, _)
Visits(resp, pos) ==
    IF pos > Len(resp) THEN {}
    ELSE {resp[pos].task.taskID} \cup
         (IF resp[pos].timeLimit > 0 THEN Visits(resp, pos + 1)
          ELSE Visits(RemoveAt(resp, pos), pos + 1))

C2_SecondRespondEvicts ==
    [][\A k \in 1..Len(responses) :
          (/\ delivered' = delivered + 1
           /\ Len(responses[k].responseMessages) = 1
           /\ \E m \in RespondInputs :
                 m.taskID = responses[k].task.taskID /\ HandleRespond(m))
          => (/\ Cardinality(ImagesFor(Appended, responses[k].task.taskID)) = 1
              /\ ~HasEntry(responses', responses[k].task.taskID))]_vars

InList(s, x) == IndexOf(s, x) # 0

LastIndexOf(s, x) == CHOOSE i \in 1..Len(s) : s[i] = x /\ \A j \in (i + 1)..Len(s) : s[j] # x

\* C3 (as claimed): when the second RESPOND arrives and the two responders are
\* distinct members of the priority list, the IMAGE-DATA goes to the
\* lastSenderID of the responder at the greater index of the priority list.
C3_TailFirstDelegate ==
    [][\A k \in 1..Len(responses) :
          (/\ delivered' = delivered + 1
           /\ Len(responses') = Len(responses)
           /\ Len(responses[k].responseMessages) = 1
           /\ Len(responses'[k].responseMessages) = 2)
          => LET rl == responses'[k].responseMessages
                 pl == GetSatellitePriorityList
             IN (/\ rl[1].source # rl[2].source
                 /\ InList(pl, rl[1].source)
                 /\ InList(pl, rl[2].source))
                => Appended = <<ImageDataMessage(responses[k].task,
                        IdHop(IF LastIndexOf(pl, rl[1].source) > LastIndexOf(pl, rl[2].source)
                              THEN rl[1].lastSenderID
                              ELSE rl[2].lastSenderID))>>]_vars

\* C4 (as claimed): an entry holding one RESPOND emits nothing while its
\* timeLimit is positive; the tick that finds it expired emits exactly one
\* IMAGE-DATA whose firstHopID is that RESPOND's lastSenderID, and evicts it.
C4_SingleResponder ==
    [][\A k \in 1..Len(responses) :
          LET e == responses[k]
              t == e.task.taskID
          IN (/\ DecrementTime
              /\ Len(e.responseMessages) = 1
              /\ t \in Visits(responses, 1))
             => IF e.timeLimit > 0
                THEN ImagesFor(Appended, t) = {} /\ HasEntry(responses', t)
                ELSE /\ \E n \in 1..Len(Appended) :
                          /\ ImagesFor(Appended, t) = {n}
                          /\ Appended[n] = ImageDataMessage(e.task,
                                 IdHop(e.responseMessages[1].lastSenderID))
                     /\ ~HasEntry(responses', t)]_vars

Handled(type) == Fetched(type) /\ Len(messageList') < Len(messageList)

\* the router took a step of messageTypeHandle
RouterMoves == routerPc' # routerPc \/ Len(messageList') < Len(messageList)

InQueue(queue, m) == \E k \in 1..Len(queue) : queue[k] = m

C7_ImageDispatch ==
    [][Handled("IMAGE") =>
          LET m == CurrentMessage
              t == m.taskID
          IN IF routerPc = "image"
             THEN /\ t \in DOMAIN acceptedRequestsQueue
                  /\ allocatedTasks' = AppendTask(allocatedTasks, Payload(m),
                                                  acceptedRequestsQueue[t].frequency)
                  /\ t \notin DOMAIN acceptedRequestsQueue'
                  /\ transmissionQueue' = transmissionQueue
             ELSE /\ Appended = <<m>>
                  /\ allocatedTasks' = allocatedTasks]_vars

\* C8 (as claimed, its last sentence): no task is submitted for an entry the
\* sweep has removed - a task is handed to the executor only while its entry
\* is in the registry.
C8_NoSubmitAfterSweep ==
    [][allocatedTasks' # allocatedTasks =>
          CurrentMessage.taskID \in DOMAIN acceptedRequestsQueue]_vars

\* C9: a RESPONSE-NACK for a queued taskID removes the entry and is not
\* forwarded; an IMAGE-DATA for that taskID handled afterwards, with no new
\* admit in between, is forwarded and not handed to the executor.
C9_NackCancelsAdmit ==
    [][LET m == CurrentMessage
           t == m.taskID
       IN /\ (routerPc = "idle" /\ Fetched("NACK") /\ RouterMoves
                 /\ t \in DOMAIN acceptedRequestsQueue)
             => (routerPc' = "nack" /\ transmissionQueue' = transmissionQueue)
          /\ (routerPc = "nack" /\ RouterMoves)
             => /\ t \notin DOMAIN acceptedRequestsQueue'
                /\ transmissionQueue' = transmissionQueue
                /\ allocatedTasks' = allocatedTasks
                /\ routerPc' = "idle"
          /\ (routerIdx < Len(messageList) /\ m.type = "IMAGE" /\ RouterMoves
                 /\ t \in cancelled)
             => /\ Appended = <<m>>
                /\ allocatedTasks' = allocatedTasks
                /\ routerPc' = "idle"]_vars

\* admitted, cancelled by a NACK, then the IMAGE-DATA came and was forwarded
C9_Witness ==
    \E t \in cancelled :
        /\ now = 0
        /\ t \notin DOMAIN acceptedRequestsQueue
        /\ allocatedTasks = <<>>
        /\ lastHandled = [type |-> "IMAGE", taskID |-> t]
        /\ Len(transmissionQueue) = 2
        /\ transmissionQueue[1].type = "RESPOND" /\ transmissionQueue[1].taskID = t
        /\ transmissionQueue[2].type = "IMAGE" /\ transmissionQueue[2].taskID = t

\* C10: the second of two successive RESPONSE-NACKs for the same taskID
\* leaves the registry as the first left it.
C10_NackIdempotent ==
    [][(routerIdx < Len(messageList) /\ CurrentMessage.type = "NACK" /\ RouterMoves
           /\ lastHandled = [type |-> "NACK", taskID |-> CurrentMessage.taskID])
          => (acceptedRequestsQueue' = acceptedRequestsQueue /\ routerPc' = "idle")]_vars

\* admitted, removed by the first NACK, and the second NACK was forwarded
C10_Witness ==
    \E t \in cancelled :
        /\ now = 0
        /\ lastHandled = [type |-> "NACK", taskID |-> t]
        /\ Len(transmissionQueue) = 2
        /\ transmissionQueue[1].type = "RESPOND" /\ transmissionQueue[1].taskID = t
        /\ transmissionQueue[2].type = "NACK" /\ transmissionQueue[2].taskID = t

(***************************************************************************)
(* Properties of relaying and of cancellation at the originator.           *)
(***************************************************************************)
\* C11 (as claimed): a RESPOND whose taskID matches no entry of the collector
\* is put on the transmission queue, and so is a RESPONSE-NACK whose taskID
\* is not in the registry.
C11_UnmatchedForwarded ==
    [][/\ (Handled("RESPOND") /\ ~HasEntry(responses, CurrentMessage.taskID))
          => Appended = <<CurrentMessage>>
       /\ (Handled("NACK") /\ routerPc = "idle")
          => Appended = <<CurrentMessage>>]_vars

\* the entries of the collector for task t that hold a RESPOND handed over
\* by neighbour l
EntriesWithRespond(resp, t, l) ==
    {k \in 1..Len(resp) :
        /\ resp[k].task.taskID = t
        /\ \E j \in 1..Len(resp[k].responseMessages) :
              resp[k].responseMessages[j].lastSenderID = l}

\* C12 (as claimed): handling a RESPONSE-NACK for a task the collector tracks
\* removes the RESPOND recorded for it from the same responder; the entry
\* stays in the table.
C12_NackRemovesRespond ==
    [][Handled("NACK") =>
          \A k \in EntriesWithRespond(responses, CurrentMessage.taskID,
                                      CurrentMessage.lastSenderID) :
              /\ Len(responses') = Len(responses)
              /\ responses'[k].task = responses[k].task
              /\ Len(responses'[k].responseMessages) < Len(responses[k].responseMessages)]_vars

(***************************************************************************)
(* Properties of the orbit, the priority list and the result messages.     *)
(***************************************************************************)
\* C13 (as claimed): the priority list starts with this satellite, holds it
\* exactly once, holds every other known satellite at most once and ends
\* with the sentinel GROUND.
C13_PriorityListShape ==
    LET pl == GetSatellitePriorityList
    IN /\ pl[1] = satelliteID
       /\ Occurrences(pl, satelliteID) = 1
       /\ \A id \in NodeIDs \ {satelliteID} : Occurrences(pl, id) <= 1
       /\ pl[Len(pl)] = GROUND

\* the number of ring hops between two known satellites
RingHops(a, b) ==
    LET d == Abs(IndexOf(nodes, a) - IndexOf(nodes, b))
    IN IF d <= Len(nodes) - d THEN d ELSE Len(nodes) - d

\* C14 (as claimed): of the two satellites at offsets +i and -i the one with
\* fewer ring hops to the ground-closest satellite comes first in the
\* priority list (the ground-closest satellite itself before its opposite).
C14_NearerDirectionFirst ==
    satelliteID # satClosestToGround =>
        LET pl == GetSatellitePriorityList
            N == Len(nodes)
            startIdx == IndexOf(nodes, satelliteID) - 1
        IN \A i \in 1..((Len(pl) - 2) \div 2) :
              LET plus == nodes[PyMod(startIdx + i, N) + 1]
                  minus == nodes[PyMod(startIdx - i, N) + 1]
              IN /\ RingHops(plus, satClosestToGround) < RingHops(minus, satClosestToGround)
                    => (pl[2 * i] = plus /\ pl[2 * i + 1] = minus)
                 /\ RingHops(minus, satClosestToGround) < RingHops(plus, satClosestToGround)
                    => (pl[2 * i] = minus /\ pl[2 * i + 1] = plus)

\* C15: for all known satellites a and b the hop count is min(d, N - d) with
\* d = |idx(b) - idx(a)|; it is at most ceil(N/2), zero from a satellite to
\* itself, and the same in both directions.
C15_PathHops ==
    \A a, b \in NodeIDs :
        LET N == Len(nodes)
            d == Abs(IndexOf(nodes, b) - IndexOf(nodes, a))
        IN /\ GetPathDistanceToDestination(a, b) = (IF d <= N - d THEN d ELSE N - d)
           /\ GetPathDistanceToDestination(a, b) <= (N + 1) \div 2
           /\ GetPathDistanceToDestination(a, a) = 0
           /\ GetPathDistanceToDestination(a, b) = GetPathDistanceToDestination(b, a)

\* the way to the ground-closest satellite is one hop across the wrap-around
\* of the ring, where the index difference is N - 1
C15_Witness ==
    /\ Len(nodes) >= 3
    /\ satelliteID = nodes[1]
    /\ satClosestToGround = nodes[Len(nodes)]
    /\ GetPathDistanceToDestination(satelliteID, satClosestToGround) = 1

\* C16: after initialisation and after every tick satClosestToGround is a
\* known satellite, no satellite is nearer to the ground station, no
\* satellite earlier in insertion order is equally near, and recomputing the
\* minimisation on the same angles gives the same identifier.
C16_ClosestIsArgmin ==
    /\ satClosestToGround \in NodeIDs
    /\ \A id \in NodeIDs :
          GroundDistance(currentAngle[satClosestToGround]) <= GroundDistance(currentAngle[id])
    /\ \A k \in 1..(IndexOf(nodes, satClosestToGround) - 1) :
          GroundDistance(currentAngle[nodes[k]]) > GroundDistance(currentAngle[satClosestToGround])
    /\ CalculateSatClosestToGround(nodes, currentAngle) = satClosestToGround

\* ticks have moved the ring to angles where two satellites are equally near
\* the ground station, and the earlier one is the closest
C16_Witness ==
    /\ currentAngle[nodes[1]] % (AngleSteps \div Len(nodes)) # 0
    /\ \E id \in NodeIDs \ {satClosestToGround} :
          GroundDistance(currentAngle[id]) = GroundDistance(currentAngle[satClosestToGround])

\* the first member of the priority list that is a direct neighbour
EarliestNeighbour(pl) ==
    pl[CHOOSE k \in 1..Len(pl) :
          /\ pl[k] \in {connections[1], connections[2]}
          /\ \A j \in 1..(k - 1) : pl[j] \notin {connections[1], connections[2]}]

\* C17 (as claimed): every PROCESSED-DATA the executor emits carries as
\* firstHopID the earliest member of the priority list that is a direct
\* neighbour, and no firstHopID when this satellite is the ground-closest.
C17_ProcessedFirstHop ==
    [][\A n \in 1..Len(Appended) :
          Appended[n].type = "PROCESSED"
          => Appended[n].firstHopID =
                (IF satelliteID = satClosestToGround
                 THEN NoneHop
                 ELSE IdHop(EarliestNeighbour(GetSatellitePriorityList)))]_vars

(***************************************************************************)
(* Properties of the links and of the inbox.                               *)
(***************************************************************************)
\* C18 (as claimed): no message is put on the link to the neighbour it
\* arrived from, except a RESPOND whose firstHopID is that neighbour.
C18_NoBackSend ==
    \A k \in 1..Len(sent) :
        (sent[k].from \in Neighbours /\ sent[k].to = sent[k].from)
        => (sent[k].message.type = "RESPOND"
            /\ sent[k].message.firstHopID = IdHop(sent[k].to))

\* C19: every message on a link carries this node's identifier as
\* lastSenderID, whether the node originated it or forwarded it.
C19_LastSenderIsSelf ==
    \A k \in 1..Len(sent) : sent[k].message.lastSenderID = satelliteID

\* a RESPOND of this node and a message forwarded for a neighbour are both
\* on the links
C19_Witness ==
    \E i, j \in 1..Len(sent) :
        /\ sent[i].message.type = "RESPOND" /\ sent[i].from \notin Neighbours
        /\ sent[j].from \in Neighbours /\ sent[j].to # sent[j].from

\* C20 (as claimed): when the router starts handling a message, no message
\* that the same neighbour handed over before it is still waiting in the
\* inbox.
C20_InboxOrder ==
    [][(routerPc = "idle" /\ routerIdx < Len(messageList) /\ RouterMoves)
          => \A k \in 1..routerIdx :
                messageList[k].lastSenderID # CurrentMessage.lastSenderID]_vars

\* C22 (as claimed): between the membership test and the removal of the
\* IMAGE-DATA branch the entry stays in the registry - whenever the router
\* stands between line 146 and lines 147-151, the taskID it tested is still
\* present.
C22_CheckThenRemoveAtomic ==
    routerPc = "image" => CurrentMessage.taskID \in DOMAIN acceptedRequestsQueue

(***************************************************************************)
(* Properties of the worker threads.                                       *)
(***************************************************************************)
\* C21 (as claimed): a malformed frame deposits nothing into the inbox and
\* leaves the listener running, ready for the next frame.
C21_MalformedDropped ==
    [][\A side \in Sides, kind \in Malformed :
          ReceiveFrame(side, kind, NoMessage)
          => (messageList' = messageList /\ workers'[side] = "running")]_vars

\* C23 (as claimed): each entry takes one terminal decision - no task has an
\* IMAGE-DATA of the time-out path (first hop a neighbour's address or the
\* lone responder) and an IMAGE-DATA of the two-RESPOND path (first hop
\* picked by getPriority) together on the transmission queue.
C23_OneTerminalDecision ==
    \A t \in OwnTaskIDs :
        ~ /\ \E k \in 1..Len(transmissionQueue) :
                /\ IsImageFor(transmissionQueue[k], t)
                /\ transmissionQueue[k].firstHopID.kind \in {"ip", "method"}
          /\ \E k \in 1..Len(transmissionQueue) :
                /\ IsImageFor(transmissionQueue[k], t)
                /\ transmissionQueue[k].firstHopID.kind \in {"id", "none"}

\* C24 (as claimed): what a reader sees is a consistent snapshot - the
\* angles keep the spacing of the ring (all moved by the same number of
\* ticks) and the closest satellite is the minimiser for these angles.
C24_ConsistentSnapshot ==
    /\ \A a, b \in DOMAIN snapshot.angles :
          PyMod(snapshot.angles[a] - snapshot.angles[b], AngleSteps)
             = PyMod((a - b) * (AngleSteps \div Len(nodes)), AngleSteps)
    /\ snapshot.closest = CalculateSatClosestToGround(nodes, snapshot.angles)

\* C25 (as claimed): once the stop events are set every worker loop
\* eventually exits.
C25_StopEndsWorkers ==
    stopFlag ~> (\A w \in Workers : workers[w] = "exited")

\* C26 (as claimed): when the node keeps a task of its own, no REQUEST for
\* it is queued for transmission, the task is handed to the local executor
\* and the collector holds no entry for it.
C26_SelfAdmission ==
    [][AllocateTaskToSelf(TRUE) =>
          LET t == MakeTaskID(taskCount + 1, satelliteID)
          IN /\ transmissionQueue' = transmissionQueue
             /\ ~HasEntry(responses', t)
             /\ \E k \in 1..Len(allocatedTasks') : allocatedTasks'[k].task.taskID = t]_vars

\* C27: the registry holds one entry per taskID and the last writer wins -
\* admitting a REQUEST leaves the other entries alone and makes the entry of
\* its taskID carry the expiry of this REQUEST, also when the taskID was
\* already present; one removal (RESPONSE-NACK or IMAGE-DATA) then leaves no
\* entry for the taskID.
C27_LastWriterWins ==
    [][LET m == CurrentMessage
           t == m.taskID
       IN /\ (Handled("REQUEST") /\ Len(Appended) = 1 /\ Appended[1].type = "RESPOND")
             => /\ DOMAIN acceptedRequestsQueue' = DOMAIN acceptedRequestsQueue \cup {t}
                /\ acceptedRequestsQueue'[t].expiry = m.unixTimestampLimit
                /\ acceptedRequestsQueue'[t].frequency \in Frequencies
                /\ \A u \in DOMAIN acceptedRequestsQueue \ {t} :
                      acceptedRequestsQueue'[u] = acceptedRequestsQueue[u]
          /\ (routerPc \in {"image", "nack"} /\ RouterMoves)
             => t \notin DOMAIN acceptedRequestsQueue']_vars

\* the REQUEST with the late deadline was admitted, then the one with the
\* early deadline for the same task, nothing else was handed over and no
\* time has passed: the entry carries the early expiry
C27_Witness ==
    LET t == MakeTaskID(1, connections[1])
    IN /\ delivered = 2
       /\ now = 0
       /\ transmissionQueue = <<RespondMessage(t, satelliteID, IdHop(connections[2]), 0),
                                RespondMessage(t, satelliteID, IdHop(connections[1]), 0)>>
       /\ t \in DOMAIN acceptedRequestsQueue
       /\ acceptedRequestsQueue[t].expiry = RequestDeadline

\* the entry of task t
EntryOf(resp, t) == resp[CHOOSE k \in 1..Len(resp) : resp[k].task.taskID = t]

\* C28: the window of an entry is fixed at creation - addTask creates it with
\* timeLimit = deadline - now and no responses, a RESPOND arrival changes no
\* timeLimit, and a tick lowers the timeLimit of a positive entry by one if it
\* visits it and not at all otherwise, without emitting, logging or removing
\* anything for that entry.
C28_WindowFixed ==
    [][/\ Len(responses') > Len(responses)
          => LET e == responses'[Len(responses')]
             IN /\ e.timeLimit = e.task.unixTimestampLimit - now
                /\ e.responseMessages = <<>>
                /\ SubSeq(responses', 1, Len(responses)) = responses
       /\ delivered' = delivered + 1
          => /\ Len(responses') = Len(responses)
             /\ \A k \in 1..Len(responses) :
                   responses'[k].timeLimit = responses[k].timeLimit
       /\ (taskCount' = taskCount /\ delivered' = delivered /\ now' = now)
          => \A k \in 1..Len(responses) :
                LET t == responses[k].task.taskID
                IN responses[k].timeLimit > 0
                   => /\ HasEntry(responses', t)
                      /\ EntryOf(responses', t).timeLimit =
                            IF t \in Visits(responses, 1)
                            THEN responses[k].timeLimit - 1
                            ELSE responses[k].timeLimit
                      /\ ImagesFor(Appended, t) = {}
                      /\ ~InList(SubSeq(log', Len(log) + 1, Len(log')), t)]_vars

\* an entry created with window 1 when the clock stood at 1 was lowered to 0
\* by one tick and holds a RESPOND; its time-out has not fired
C28_Witness ==
    \E k \in 1..Len(responses) :
        /\ responses[k].task.unixTimestampLimit = 2
        /\ responses[k].timeLimit = 0
        /\ Len(responses[k].responseMessages) = 1
        /\ ImagesFor(transmissionQueue, responses[k].task.taskID) = {}

\* C29: under fair ticking every entry addTask created is eventually removed
\* from the table, whatever it holds when it expires.
C29_EntriesEvicted ==
    \A c \in 1..MaxTasks :
        HasEntry(responses, MakeTaskID(c, satelliteID))
           ~> ~HasEntry(responses, MakeTaskID(c, satelliteID))

\* two entries were created, one collected two RESPONDs and one none, and
\* both are gone
C29_Witness ==
    /\ responses = <<>>
    /\ taskCount >= 2
    /\ \E t, u \in OwnTaskIDs :
          /\ t # u
          /\ \E k \in ImagesFor(transmissionQueue, t) :
                transmissionQueue[k].firstHopID.kind = "id"
          /\ \E k \in ImagesFor(transmissionQueue, u) :
                transmissionQueue[k].firstHopID.kind = "ip"

\* C30 (as claimed): when the second RESPOND of an entry arrives from another
\* responder than the first, the one IMAGE-DATA emitted goes to the
\* lastSenderID of one of the two responders - its firstHopID is never absent.
C30_DelegateNeverNone ==
    [][\A k \in 1..Len(responses) :
          (/\ delivered' = delivered + 1
           /\ Len(responses') = Len(responses)
           /\ Len(responses[k].responseMessages) = 1
           /\ Len(responses'[k].responseMessages) = 2
           /\ responses'[k].responseMessages[1].source
                 # responses'[k].responseMessages[2].source)
          => LET rl == responses'[k].responseMessages
             IN /\ Len(Appended) = 1
                /\ Appended[1].firstHopID
                      \in {IdHop(rl[1].lastSenderID), IdHop(rl[2].lastSenderID)}]_vars

\* C31: every message deposited into the inbox is handled exactly once - a
\* deposit appends one message and leaves the iterator alone, a message
\* leaves the inbox only in the step that handled it (the one under the
\* iterator) and one at a time, and a non-empty inbox is eventually drained,
\* so no message stays skipped.
C31_HandledOnce ==
    /\ [][(Len(messageList') > Len(messageList)
              => ((\E m \in RouterInputs : messageList' = Append(messageList, m))
                  /\ routerIdx' = routerIdx))
           /\ (Len(messageList') < Len(messageList)
              => (routerIdx < Len(messageList)
                  /\ messageList' = RemoveAt(messageList, routerIdx + 1)
                  /\ lastHandled' = [type |-> CurrentMessage.type,
                                     taskID |-> CurrentMessage.taskID]))
           /\ (Len(messageList') = Len(messageList)
              => messageList' = messageList)]_vars
    /\ (messageList # <<>>) ~> (messageList = <<>>)

\* a pass of the loop ran off the end of the list and left behind a message
\* it skipped
C31_Witness ==
    /\ Len(messageList) = 1
    /\ routerIdx = 2
    /\ routerPc = "idle"
    /\ delivered = 3

\* C32 (as claimed): while the node holds an accepted entry for a taskID,
\* handling another REQUEST for that taskID reserves nothing anew and sends
\* no RESPOND.
C32_OneRespondPerTask ==
    [][(Handled("REQUEST") /\ CurrentMessage.taskID \in DOMAIN acceptedRequestsQueue)
          => (/\ acceptedRequestsQueue' = acceptedRequestsQueue
              /\ \A k \in 1..Len(Appended) : Appended[k].type # "RESPOND")]_vars

\* C33 (as claimed): forwarding terminates - a message no node takes is
\* eventually on no link and in no queue of the ring any more.
C33_ForwardingTerminates ==
    (flight # {}) ~> (flight = {})

\* C34: the router changes only what its dispatch table names - a step of
\* messageTypeHandle for a PROCESSED-DATA or a RESPOND leaves the registry
\* and the executor's list alone, one for a REQUEST, IMAGE-DATA,
\* RESPONSE-NACK or PROCESSED-DATA leaves the collector's table and log
\* alone, and when the step queues a message of the type it handles (a
\* forward) it queues the handled message itself, once.
C34_DispatchFrame ==
    [][(routerIdx < Len(messageList) /\ RouterMoves)
          => LET m == CurrentMessage
             IN /\ (m.type \in {"PROCESSED", "RESPOND"})
                   => (acceptedRequestsQueue' = acceptedRequestsQueue
                       /\ allocatedTasks' = allocatedTasks)
                /\ (m.type \in {"REQUEST", "IMAGE", "NACK", "PROCESSED"})
                   => (responses' = responses /\ log' = log)
                /\ (m.type # "RESPOND" /\ Appended # <<>> /\ Appended[1].type = m.type)
                   => Appended = <<m>>]_vars

\* with a task of its own waiting in the collector and an accepted entry in
\* the registry, the router has just forwarded a PROCESSED-DATA
C34_Witness ==
    /\ responses # <<>>
    /\ acceptedRequestsQueue # EmptyRegistry
    /\ lastHandled.type = "PROCESSED"
    /\ InQueue(transmissionQueue, ProcessedDataMessage(NoneHop, connections[2]))

\* C35: canExecuteMission is monotone in time - once true for a radian and
\* an orbit number it stays true over every step, every mission angle is
\* eventually passed under continued ticking, and no step changes the
\* angular separation of two satellites.
C35_MissionMonotone ==
    /\ [][\A radian \in 0..(AngleSteps - 1), orbitNumber \in 1..MaxOrbits :
             CanExecuteMission(currentAngle, radian, orbitNumber)
                => CanExecuteMission(currentAngle', radian, orbitNumber)]_vars
    /\ [][\A a, b \in DOMAIN currentAngle :
             currentAngle'[a] - currentAngle'[b] = currentAngle[a] - currentAngle[b]]_vars
    /\ \A radian \in 0..(AngleSteps - 1), orbitNumber \in 1..MaxOrbits :
          <>CanExecuteMission(currentAngle, radian, orbitNumber)

\* ticks have carried the node past the last angle of the last orbit
C35_Witness ==
    /\ CanExecuteMission(currentAngle, AngleSteps - 1, MaxOrbits)
    /\ currentAngle[satelliteID] = MaxAngle

====
